---- MODULE Spec2Model ----
(***************************************************************************)
(* Model of validators/pydantic/runner.py: read standard input, parse it   *)
(* as JSON, build StructuralConfig from it and print the result record.    *)
(*                                                                         *)
(* Strings are sequences of one-character strings.  A JSON scalar is a     *)
(* record [t, n, d, s]: t is the JSON/Python type, n/d the rational value  *)
(* of a finite number (d > 0), s the characters of a string.               *)
(***************************************************************************)
EXTENDS Integers, Sequences, FiniteSets, TLC

(* ---- bounds of the model ---- *)

\* how many unrecognised keys an input object may carry
MaxExtra == 1

\* numbers are sampled k/10000 around each range end, for k in -Near..Near
Near == 1

(* ---- JSON values as json.loads builds them ---- *)

Null == [t |-> "null", n |-> 0, d |-> 1, s |-> <<>>]

Bool(b) == [t |-> "bool", n |-> IF b THEN 1 ELSE 0, d |-> 1, s |-> <<>>]

Num(n, d) == [t |-> "num", n |-> n, d |-> d, s |-> <<>>]

NaN == [t |-> "nan", n |-> 0, d |-> 1, s |-> <<>>]

Inf(sign) == [t |-> "inf", n |-> sign, d |-> 1, s |-> <<>>]

Str(s) == [t |-> "str", n |-> 0, d |-> 1, s |-> s]

(* ---- character classes ---- *)

Digits == <<"0", "1", "2", "3", "4", "5", "6", "7", "8", "9">>

IsDigit(c) == \E i \in 1..10 : Digits[i] = c

DigitVal(c) == (CHOOSE i \in 1..10 : Digits[i] = c) - 1

IsHex(c) == IsDigit(c) \/ c \in {"a", "b", "c", "d", "e", "f", "A", "B", "C", "D", "E", "F"}

AllHex(s) == \A i \in 1..Len(s) : IsHex(s[i])

AllDigits(s) == Len(s) > 0 /\ \A i \in 1..Len(s) : IsDigit(s[i])

RECURSIVE DecVal(_)
DecVal(s) == IF s = <<>> THEN 0 ELSE 10 * DecVal(SubSeq(s, 1, Len(s) - 1)) + DigitVal(s[Len(s)])

RECURSIVE Pow10(_)
Pow10(k) == IF k = 0 THEN 1 ELSE 10 * Pow10(k - 1)

HasPrefix(s, p) == Len(s) >= Len(p) /\ SubSeq(s, 1, Len(p)) = p

(* ---- id: UUID ---- *)

\* 8-4-4-4-12 hexadecimal digits
IsHyphenatedUuid(s) ==
    /\ Len(s) = 36
    /\ \A i \in 1..36 : IF i \in {9, 14, 19, 24} THEN s[i] = "-" ELSE IsHex(s[i])

IsSimpleUuid(s) == Len(s) = 32 /\ AllHex(s)

UrnPrefix == <<"u", "r", "n", ":", "u", "u", "i", "d", ":">>

ParsesAsUuid(s) ==
    \/ IsHyphenatedUuid(s)
    \/ IsSimpleUuid(s)
    \/ (Len(s) = 38 /\ s[1] = "{" /\ s[38] = "}" /\ IsHyphenatedUuid(SubSeq(s, 2, 37)))
    \/ (HasPrefix(s, UrnPrefix) /\ IsHyphenatedUuid(SubSeq(s, 10, Len(s))))

\* the error type of a value for field id, "" when the value is accepted
ValidateUuid(v) ==
    IF v.t # "str" THEN "uuid_type"
    ELSE IF ParsesAsUuid(v.s) THEN "" ELSE "uuid_parsing"

(* ---- timestamp: datetime ---- *)

IsLeap(y) == (y % 4 = 0 /\ y % 100 # 0) \/ y % 400 = 0

DaysIn(y, m) ==
    IF m = 2 THEN (IF IsLeap(y) THEN 29 ELSE 28)
    ELSE IF m \in {4, 6, 9, 11} THEN 30 ELSE 31

\* YYYY-MM-DD
ParsesAsDate(s) ==
    /\ Len(s) = 10
    /\ s[5] = "-" /\ s[8] = "-"
    /\ AllDigits(SubSeq(s, 1, 4)) /\ AllDigits(SubSeq(s, 6, 7)) /\ AllDigits(SubSeq(s, 9, 10))
    /\ LET y == DecVal(SubSeq(s, 1, 4))
           m == DecVal(SubSeq(s, 6, 7))
           day == DecVal(SubSeq(s, 9, 10))
       IN  m \in 1..12 /\ day \in 1..DaysIn(y, m)

\* HH:MM or HH:MM:SS
ParsesAsTime(s) ==
    /\ Len(s) \in {5, 8}
    /\ s[3] = ":"
    /\ AllDigits(SubSeq(s, 1, 2)) /\ AllDigits(SubSeq(s, 4, 5))
    /\ DecVal(SubSeq(s, 1, 2)) \in 0..23 /\ DecVal(SubSeq(s, 4, 5)) \in 0..59
    /\ Len(s) = 8 =>
         /\ s[6] = ":"
         /\ AllDigits(SubSeq(s, 7, 8))
         /\ DecVal(SubSeq(s, 7, 8)) \in 0..59

\* the text without a trailing UTC designator
StripZone(s) == IF Len(s) > 0 /\ s[Len(s)] \in {"Z", "z"} THEN SubSeq(s, 1, Len(s) - 1) ELSE s

\* a date, or a date, a separator and a time with an optional Z
ParsesAsDatetime(s) ==
    \/ ParsesAsDate(s)
    \/ /\ Len(s) >= 16
       /\ ParsesAsDate(SubSeq(s, 1, 10))
       /\ s[11] \in {"T", "t", " ", "_"}
       /\ ParsesAsTime(StripZone(SubSeq(s, 12, Len(s))))

\* the error type of a value for field timestamp, "" when accepted; a finite
\* number is taken as Unix time
ValidateDatetime(v) ==
    IF v.t = "str" THEN (IF ParsesAsDatetime(v.s) THEN "" ELSE "datetime_from_date_parsing")
    ELSE IF v.t = "num" THEN ""
    ELSE "datetime_type"

(* ---- temperature, pressure: float with ge and le ---- *)

TemperatureGe == -50

TemperatureLe == 150

PressureGe == 800

PressureLe == 1200

\* optional sign, digits, optional fraction: the rational it denotes
ParseDecimal(s) ==
    LET body == IF Len(s) > 0 /\ s[1] \in {"-", "+"} THEN SubSeq(s, 2, Len(s)) ELSE s
        neg == Len(s) > 0 /\ s[1] = "-"
        dots == {i \in 1..Len(body) : body[i] = "."}
        dot == IF dots = {} THEN Len(body) + 1 ELSE CHOOSE i \in dots : \A j \in dots : i <= j
        whole == SubSeq(body, 1, dot - 1)
        frac == SubSeq(body, dot + 1, Len(body))
    IN  IF AllDigits(whole) /\ (dots = {} \/ AllDigits(frac))
        THEN [ok |-> TRUE,
              n |-> (IF neg THEN -1 ELSE 1) * (DecVal(whole) * Pow10(Len(frac)) + DecVal(frac)),
              d |-> Pow10(Len(frac))]
        ELSE [ok |-> FALSE, n |-> 0, d |-> 1]

GeHoldsStrict(v, ge) == (v.t = "inf" /\ v.n > 0) \/ (v.t = "num" /\ v.n > ge * v.d)

\* value >= ge on floats: false for NaN
GeHolds(v, ge) == (v.t = "inf" /\ v.n > 0) \/ (v.t = "num" /\ v.n >= ge * v.d)

LeHoldsStrict(v, le) == (v.t = "inf" /\ v.n < 0) \/ (v.t = "num" /\ v.n < le * v.d)

\* value <= le on floats: false for NaN
LeHolds(v, le) == (v.t = "inf" /\ v.n < 0) \/ (v.t = "num" /\ v.n <= le * v.d)

\* the float a value is coerced to, or the error type that refuses it
CoerceFloat(v) ==
    IF v.t \in {"num", "nan", "inf"} THEN [err |-> "", f |-> v]
    ELSE IF v.t = "bool" THEN [err |-> "", f |-> Num(v.n, 1)]
    ELSE IF v.t = "str"
         THEN LET p == ParseDecimal(v.s)
              IN  IF p.ok THEN [err |-> "", f |-> Num(p.n, p.d)]
                  ELSE [err |-> "float_parsing", f |-> NaN]
    ELSE [err |-> "float_type", f |-> NaN]

\* the error type of a value for a float field with Field(ge=, le=): the
\* type is coerced first, then the bounds are checked
ValidateFloat(v, ge, le) ==
    LET c == CoerceFloat(v)
    IN  IF c.err # "" THEN c.err
        ELSE IF ~LeHolds(c.f, le) THEN "less_than_equal"
        ELSE IF ~GeHolds(c.f, ge) THEN "greater_than_equal"
        ELSE ""

(* ---- mode: str with pattern ^(AUTO|MANUAL)$ ---- *)

AUTO == <<"A", "U", "T", "O">>

MANUAL == <<"M", "A", "N", "U", "A", "L">>

PatternAlternatives == {AUTO, MANUAL}

MatchesPrefixOnly(s) == \E a \in PatternAlternatives : HasPrefix(s, a)

\* ^ anchors the match at the first character, $ at the end of the text
MatchesPattern(s) == \E a \in PatternAlternatives : HasPrefix(s, a) /\ Len(s) = Len(a)

\* the error type of a value for field mode, "" when accepted
ValidateMode(v) ==
    IF v.t # "str" THEN "string_type"
    ELSE IF MatchesPattern(v.s) THEN "" ELSE "string_pattern_mismatch"

(* ---- StructuralConfig ---- *)

\* the fields in declaration order
Fields == <<"id", "timestamp", "temperature", "pressure", "mode">>

FieldSet == {Fields[i] : i \in 1..Len(Fields)}

ValidateField(f, v) ==
    CASE f = "id" -> ValidateUuid(v)
      [] f = "timestamp" -> ValidateDatetime(v)
      [] f = "temperature" -> ValidateFloat(v, TemperatureGe, TemperatureLe)
      [] f = "pressure" -> ValidateFloat(v, PressureGe, PressureLe)
      [] f = "mode" -> ValidateMode(v)

MissingAsDefault(f, doc) == <<>>

\* an absent field: one error that echoes the whole input object
MissingError(f, doc) == <<[type |-> "missing", loc |-> <<f>>, input |-> doc]>>

\* the errors of one field: none, or one that echoes the field's value
FieldErrors(f, doc) ==
    IF f \notin DOMAIN doc THEN MissingError(f, doc)
    ELSE LET e == ValidateField(f, doc[f])
         IN  IF e = "" THEN <<>> ELSE <<[type |-> e, loc |-> <<f>>, input |-> doc[f]]>>

RECURSIVE FirstErrorOnly(_, _)
FirstErrorOnly(i, doc) ==
    IF i > Len(Fields) THEN <<>>
    ELSE IF FieldErrors(Fields[i], doc) # <<>> THEN FieldErrors(Fields[i], doc)
    ELSE FirstErrorOnly(i + 1, doc)

\* every field from the i-th on is validated, in declaration order, and the
\* errors are gathered
RECURSIVE CollectErrors(_, _)
CollectErrors(i, doc) ==
    IF i > Len(Fields) THEN <<>>
    ELSE FieldErrors(Fields[i], doc) \o CollectErrors(i + 1, doc)

RECURSIVE ExtraForbidden(_)
ExtraForbidden(doc) ==
    LET extra == DOMAIN doc \ FieldSet
    IN  IF extra = {} THEN <<>>
        ELSE LET k == CHOOSE x \in extra : TRUE
             IN  <<[type |-> "extra_forbidden", loc |-> <<k>>, input |-> doc[k]]>>
                 \o ExtraForbidden([x \in DOMAIN doc \ {k} |-> doc[x]])

\* keys that name no field are ignored: the class sets no extra= policy
ExtraErrors(doc) == <<>>

\* StructuralConfig(**doc): the errors of the ValidationError it raises,
\* <<>> when the object is built
ModelErrors(doc) == CollectErrors(1, doc) \o ExtraErrors(doc)

(* ---- the inputs the model runs the program on ---- *)

\* 123e4567-e89b-12d3-a456-426614174000
UuidText ==
    <<"1", "2", "3", "e", "4", "5", "6", "7", "-", "e", "8", "9", "b", "-",
      "1", "2", "d", "3", "-", "a", "4", "5", "6", "-",
      "4", "2", "6", "6", "1", "4", "1", "7", "4", "0", "0", "0">>

NotAUuidText == <<"n", "o", "t", "-", "a", "-", "u", "u", "i", "d">>

\* 2024-01-01T00:00:00Z
TimestampText ==
    <<"2", "0", "2", "4", "-", "0", "1", "-", "0", "1", "T",
      "0", "0", ":", "0", "0", ":", "0", "0", "Z">>

\* 2024-13-01T00:00:00Z
BadTimestampText ==
    <<"2", "0", "2", "4", "-", "1", "3", "-", "0", "1", "T",
      "0", "0", ":", "0", "0", ":", "0", "0", "Z">>

IdValues == {Str(UuidText), Str(NotAUuidText), Null}

TimestampValues == {Str(TimestampText), Str(BadTimestampText), Num(1704067200, 1), Null}

\* the numbers k/10000 away from an end of the range, on both sides
AroundBounds(ge, le) == {Num(b * 10000 + k, 10000) : b \in {ge, le}, k \in -Near..Near}

TemperatureValues ==
    AroundBounds(TemperatureGe, TemperatureLe)
        \cup {Num(41, 2), Num(300, 1), NaN, Inf(1), Null,
              Str(<<"2", "0", ".", "5">>), Str(<<"h", "o", "t">>)}

PressureValues == AroundBounds(PressureGe, PressureLe) \cup {Num(1010, 1), Null}

ModeValues ==
    {Str(AUTO), Str(MANUAL), Str(<<"a", "u", "t", "o">>),
     Str(<<"S", "T", "A", "N", "D", "B", "Y">>),
     Str(<<" ">> \o AUTO), Str(AUTO \o <<" ">>), Str(AUTO \o <<"\n">>),
     Num(1, 1), Null}

ValuesOf(f) ==
    CASE f = "id" -> IdValues
      [] f = "timestamp" -> TimestampValues
      [] f = "temperature" -> TemperatureValues
      [] f = "pressure" -> PressureValues
      [] f = "mode" -> ModeValues

ExtraKeyPool == <<"unit", "note", "debug">>

ExtraKeys == {ExtraKeyPool[i] : i \in 1..MaxExtra}

ExtraValue == Str(<<"C">>)

\* a field that the object does not carry
Absent == [t |-> "absent", n |-> 0, d |-> 1, s |-> <<>>]

\* the JSON object with the picked fields (those not Absent) and extra keys
MakeDoc(picked, extra) ==
    [k \in {f \in FieldSet : picked[f] # Absent} \cup extra |->
        IF k \in FieldSet THEN picked[k] ELSE ExtraValue]

Picked(i, ts, te, pr, m) ==
    [f \in FieldSet |->
        CASE f = "id" -> i
          [] f = "timestamp" -> ts
          [] f = "temperature" -> te
          [] f = "pressure" -> pr
          [] f = "mode" -> m]

EmptyDoc == [k \in {} |-> Null]

\* a top-level JSON value: its type and, for an object, its members
Object(doc) == [t |-> "object", o |-> doc]

NonObjects == {[t |-> x, o |-> EmptyDoc] : x \in {"array", "string", "number", "bool", "null"}}

\* a text is represented by what the JSON grammar makes of it
JsonText(top) == [parses |-> TRUE, value |-> top]

NotValidJson == [parses |-> FALSE, value |-> [t |-> "none", o |-> EmptyDoc]]

Texts ==
    {NotValidJson}
        \cup {JsonText(top) : top \in NonObjects}
        \cup {JsonText(Object(MakeDoc(Picked(i, ts, te, pr, m), extra))) :
                i \in ValuesOf("id") \cup {Absent},
                ts \in ValuesOf("timestamp") \cup {Absent},
                te \in ValuesOf("temperature") \cup {Absent},
                pr \in ValuesOf("pressure") \cup {Absent},
                m \in ValuesOf("mode") \cup {Absent},
                extra \in SUBSET ExtraKeys}

(* ---- main ---- *)

VARIABLES stdin, pc, raw, data, stdout, raised, exit

vars == <<stdin, pc, raw, data, stdout, raised, exit>>

\* json.loads: the value of the text, or no value when it is not JSON
Loads(text) == [ok |-> text.parses, value |-> text.value]

\* ** unpacking needs a mapping
IsMapping(top) == top.t = "object"

PrintSuccess == [ok |-> TRUE, errors |-> <<>>]

PrintFailureAsOk(errs) == [ok |-> TRUE, errors |-> errs]

PrintFailure(errs) == [ok |-> FALSE, errors |-> errs]

\* raw and data are not bound before lines 20 and 21 assign them
Init ==
    /\ stdin \in Texts
    /\ pc = "read"
    /\ raw = NotValidJson
    /\ data = NotValidJson.value
    /\ stdout = <<>>
    /\ raised = ""
    /\ exit = "running"

\* raw = sys.stdin.read()
ReadStdin ==
    /\ pc = "read"
    /\ raw' = stdin
    /\ pc' = "loads"
    /\ UNCHANGED <<stdin, data, stdout, raised, exit>>

\* data = json.loads(raw)
JsonLoads ==
    /\ pc = "loads"
    /\ Loads(raw).ok
    /\ data' = Loads(raw).value
    /\ pc' = "validate"
    /\ UNCHANGED <<stdin, raw, stdout, raised, exit>>

JsonDecodeErrorReported ==
    /\ pc = "loads"
    /\ ~Loads(raw).ok
    /\ stdout' = Append(stdout, PrintFailure(<<>>))
    /\ raised' = "JSONDecodeError"
    /\ pc' = "exit"
    /\ exit' = "1"
    /\ UNCHANGED <<stdin, raw, data>>

\* json.loads raises outside the try: the traceback ends the process
JsonDecodeError ==
    /\ pc = "loads"
    /\ ~Loads(raw).ok
    /\ raised' = "JSONDecodeError"
    /\ pc' = "exit"
    /\ exit' = "1"
    /\ UNCHANGED <<stdin, raw, data, stdout>>

\* StructuralConfig(**data) with data no mapping: a TypeError, which the
\* except clause does not catch
SplatTypeError ==
    /\ pc = "validate"
    /\ ~IsMapping(data)
    /\ raised' = "TypeError"
    /\ pc' = "exit"
    /\ exit' = "1"
    /\ UNCHANGED <<stdin, raw, data, stdout>>

\* the try body runs to its end
ValidateOk ==
    /\ pc = "validate"
    /\ IsMapping(data)
    /\ ModelErrors(data.o) = <<>>
    /\ stdout' = Append(stdout, PrintSuccess)
    /\ pc' = "exit"
    /\ exit' = "0"
    /\ UNCHANGED <<stdin, raw, data, raised>>

\* ValidationError is caught and its errors are printed
ValidateFail ==
    /\ pc = "validate"
    /\ IsMapping(data)
    /\ ModelErrors(data.o) # <<>>
    /\ stdout' = Append(stdout, PrintFailure(ModelErrors(data.o)))
    /\ pc' = "exit"
    /\ exit' = "0"
    /\ UNCHANGED <<stdin, raw, data, raised>>

Next ==
    \/ ReadStdin
    \/ JsonLoads
    \/ JsonDecodeError
    \/ SplatTypeError
    \/ ValidateOk
    \/ ValidateFail

Spec == Init /\ [][Next]_vars

(* ---- properties ---- *)

\* the program has printed a result and left normally
Reported == pc = "exit" /\ exit = "0" /\ Len(stdout) = 1

\* the program has ended on an input that is a JSON object
EndedOnObject == pc = "exit" /\ data.t = "object"

FieldIndex(f) == CHOOSE i \in 1..Len(Fields) : Fields[i] = f

\* the positions of the errors that name field f
ErrorsFor(errs, f) == {i \in 1..Len(errs) : errs[i].loc = <<f>>}

\* a number n/d with lo <= n/d <= hi
Within(v, lo, hi) == v.t = "num" /\ lo * v.d <= v.n /\ v.n <= hi * v.d

\* a value that the schema table of the specification calls valid for f
SpecValid(f, v) ==
    CASE f = "id" -> v = Str(UuidText)
      [] f = "timestamp" -> v = Str(TimestampText)
      [] f = "temperature" -> Within(v, -50, 150)
      [] f = "pressure" -> Within(v, 800, 1200)
      [] f = "mode" -> v \in {Str(<<"A", "U", "T", "O">>), Str(<<"M", "A", "N", "U", "A", "L">>)}

\* every field but f is present and valid
OthersValid(doc, f) == \A g \in FieldSet \ {f} : g \in DOMAIN doc /\ SpecValid(g, doc[g])

AllValid(doc) == \A g \in FieldSet : g \in DOMAIN doc /\ SpecValid(g, doc[g])

\* C1: an object whose five fields are all present, correctly typed, in range
\* and with mode AUTO or MANUAL is reported as exactly {ok: true, errors: []}
C1_ValidDocumentAccepted ==
    (EndedOnObject /\ AllValid(data.o)) =>
        (exit = "0" /\ stdout = <<[ok |-> TRUE, errors |-> <<>>]>>)

\* a valid document with temperature at the upper end of its range was accepted
C1_Witness ==
    /\ EndedOnObject /\ AllValid(data.o)
    /\ data.o["temperature"] = Num(1500000, 10000)
    /\ stdout = <<[ok |-> TRUE, errors |-> <<>>]>>

\* C2: every input that parses as JSON, whatever its top-level value, ends
\* with a printed result and exit 0; only unparsable JSON ends abnormally
C2_OnlyUnparsableAborts ==
    (pc = "exit" /\ stdin.parses) => (exit = "0" /\ Len(stdout) = 1)

\* a field violates the schema when it is absent or its value is refused
Violates(f, doc) == f \notin DOMAIN doc \/ ValidateField(f, doc[f]) # ""

\* C3: the printed errors hold exactly one error for each violating field,
\* none for a conforming field, in the declaration order of the fields
C3_AllErrorsInDeclarationOrder ==
    Reported =>
        LET errs == stdout[1].errors
        IN  /\ \A i \in 1..Len(errs) : Len(errs[i].loc) = 1 /\ errs[i].loc[1] \in FieldSet
            /\ \A f \in FieldSet :
                 Cardinality(ErrorsFor(errs, f)) = IF Violates(f, data.o) THEN 1 ELSE 0
            /\ \A i, j \in 1..Len(errs) :
                 i < j => FieldIndex(errs[i].loc[1]) < FieldIndex(errs[j].loc[1])

\* a result with errors for the first, third and fifth field only
C3_Witness ==
    /\ Reported
    /\ Len(stdout[1].errors) = 3
    /\ stdout[1].errors[1].loc = <<"id">>
    /\ stdout[1].errors[2].loc = <<"temperature">>
    /\ stdout[1].errors[3].loc = <<"mode">>

\* C4: on a JSON object every absent field gives exactly one error, with that
\* field as path and kind "missing", and ok is false; {} gives five of them
C4_MissingFieldReported ==
    EndedOnObject =>
        /\ \A f \in FieldSet \ DOMAIN data.o :
             /\ Reported
             /\ stdout[1].ok = FALSE
             /\ Cardinality(ErrorsFor(stdout[1].errors, f)) = 1
             /\ \A i \in ErrorsFor(stdout[1].errors, f) : stdout[1].errors[i].type = "missing"
        /\ (DOMAIN data.o = {}) =>
             /\ Len(stdout[1].errors) = 5
             /\ \A i \in 1..5 : stdout[1].errors[i].type = "missing"

\* the empty object was reported with five errors
C4_Witness ==
    /\ EndedOnObject /\ DOMAIN data.o = {}
    /\ Reported /\ Len(stdout[1].errors) = 5

\* C5: when the input is not JSON the program ends abnormally and nothing is
\* ever written to standard output
C5_UnparsablePrintsNothing ==
    ~stdin.parses => (stdout = <<>> /\ exit # "0" /\ (pc = "exit" => exit = "1"))

\* the parse failure has ended the program
C5_Witness == pc = "exit" /\ ~stdin.parses /\ raised = "JSONDecodeError" /\ stdout = <<>>

\* the field is a JSON number, the other four fields are valid
NumberCase(f) ==
    /\ EndedOnObject /\ OthersValid(data.o, f)
    /\ f \in DOMAIN data.o /\ data.o[f].t \in {"num", "nan", "inf"}

\* the result refuses field f alone
OnlyErrorIsFor(f) ==
    /\ Reported /\ stdout[1].ok = FALSE
    /\ Len(stdout[1].errors) = 1 /\ stdout[1].errors[1].loc = <<f>>

\* C6: with the other fields valid a temperature is accepted iff
\* -50 <= value <= 150 and a pressure iff 800 <= value <= 1200, both ends
\* included; a refused value gives one error for that field and ok false
C6_RangesInclusive ==
    /\ NumberCase("temperature") =>
         IF Within(data.o["temperature"], -50, 150)
         THEN stdout = <<[ok |-> TRUE, errors |-> <<>>]>>
         ELSE OnlyErrorIsFor("temperature")
    /\ NumberCase("pressure") =>
         IF Within(data.o["pressure"], 800, 1200)
         THEN stdout = <<[ok |-> TRUE, errors |-> <<>>]>>
         ELSE OnlyErrorIsFor("pressure")

\* temperature -50 was accepted
C6_Witness ==
    /\ NumberCase("temperature")
    /\ data.o["temperature"] = Num(-500000, 10000)
    /\ stdout = <<[ok |-> TRUE, errors |-> <<>>]>>

\* C7: with the other fields valid, mode is accepted iff it is the string
\* AUTO or MANUAL exactly; any other string or type gives one error for mode
C7_ModeExact ==
    (EndedOnObject /\ OthersValid(data.o, "mode") /\ "mode" \in DOMAIN data.o) =>
        IF SpecValid("mode", data.o["mode"])
        THEN stdout = <<[ok |-> TRUE, errors |-> <<>>]>>
        ELSE OnlyErrorIsFor("mode")

\* AUTO followed by one more character was refused
C7_Witness ==
    /\ EndedOnObject /\ OthersValid(data.o, "mode") /\ "mode" \in DOMAIN data.o
    /\ data.o["mode"].t = "str" /\ Len(data.o["mode"].s) = 5
    /\ SubSeq(data.o["mode"].s, 1, 4) = <<"A", "U", "T", "O">>
    /\ OnlyErrorIsFor("mode")

\* the object without the keys that name no field
Strip(doc) == [k \in DOMAIN doc \cap FieldSet |-> doc[k]]

\* what validating the object alone prints
ResultOf(doc) ==
    IF ModelErrors(doc) = <<>> THEN PrintSuccess ELSE PrintFailure(ModelErrors(doc))

\* C8 as stated: an object with extra keys gets the same ok flag and the same
\* errors list as the object without them
C8_SameResultWithExtraKeys ==
    Reported => stdout[1] = ResultOf(Strip(data.o))

\* path and kind of every error, in order
PathsAndKinds(errs) == [i \in 1..Len(errs) |-> [loc |-> errs[i].loc, type |-> errs[i].type]]

\* C8 amended: an object with extra keys gets the same ok flag and errors of
\* the same path and kind in the same order as the object without them; the
\* errors differ at most in the input echoed by a "missing" error
C8_SameVerdictWithExtraKeys ==
    Reported =>
        LET alone == ResultOf(Strip(data.o))
        IN  /\ stdout[1].ok = alone.ok
            /\ PathsAndKinds(stdout[1].errors) = PathsAndKinds(alone.errors)
            /\ \A i \in 1..Len(alone.errors) :
                 alone.errors[i].type # "missing" => stdout[1].errors[i] = alone.errors[i]

\* an object with an extra key and an absent field was reported
C8_Witness ==
    /\ Reported
    /\ DOMAIN data.o \ FieldSet # {}
    /\ FieldSet \ DOMAIN data.o # {}
    /\ stdout[1].ok = FALSE

\* C10: in every printed result ok is true iff the errors list is empty
C10_OkIffNoErrors ==
    \A i \in 1..Len(stdout) : stdout[i].ok <=> (stdout[i].errors = <<>>)

\* a failure was printed
C10_Witness == Reported /\ ~stdout[1].ok /\ stdout[1].errors # <<>>

====
